---------------------------- MODULE Spec2Model ----------------------------
(***************************************************************************)
(* es-check: the run loop of index.js (runChecks), the feature catalog     *)
(* (constants.js, ES_FEATURES) and the node matcher dispatch table         *)
(* (utils.js, checkMap).                                                   *)
(*                                                                         *)
(* The repository's detectFeatures.js, polyfillDetector.js, browserslist.js*)
(* and utils.parseIgnoreList are not among the source files; the operators *)
(* that stand for them are written from the specification (sections 4.2 to *)
(* 4.4) and are marked as such where they are defined.                     *)
(***************************************************************************)
EXTENDS Integers, Sequences, FiniteSets, TLC

(***************************************************************************)
(* JavaScript values.  A string-valued field that is absent reads as       *)
(* Undefined; a node-valued field that is absent or null reads as NoNode.  *)
(***************************************************************************)
Undefined == "<undefined>"

NoNode == [type |-> "<none>"]

GetStr(r, k) == IF k \in DOMAIN r THEN r[k] ELSE Undefined

GetNode(r, k) == IF k \in DOMAIN r THEN r[k] ELSE NoNode

\* JavaScript truthiness of a string-or-undefined value
Truthy(v) == v /= Undefined /\ v /= ""

RECURSIVE SeqToSet(_)
SeqToSet(s) == IF s = <<>> THEN {} ELSE {Head(s)} \cup SeqToSet(Tail(s))

(***************************************************************************)
(* The feature catalog: name -> minVersion and astInfo, in source order.   *)
(* (The example field is documentation only and is left out.)              *)
(***************************************************************************)
FeatureOrder ==
  << "ArraySpread", "let", "const", "class", "extends",
     "import", "export", "ArrowFunctions", "TemplateLiterals", "Destructuring",
     "DefaultParams", "RestSpread", "ForOf", "Map", "Set",
     "WeakMap", "WeakSet", "Promise", "PromiseResolve", "PromiseReject",
     "Symbol", "ExponentOperator", "ArrayPrototypeIncludes", "AsyncAwait", "ObjectValues",
     "ObjectEntries", "StringPadStart", "StringPadEnd", "ObjectSpread", "AsyncIteration",
     "PromiseFinally", "ArrayFlat", "ArrayFlatMap", "ObjectFromEntries", "OptionalCatchBinding",
     "BigInt", "DynamicImport", "OptionalChaining", "NullishCoalescing", "globalThis",
     "PromiseAllSettled", "StringMatchAll", "LogicalAssignment", "NumericSeparators", "StringReplaceAll",
     "PromiseAny", "WeakRef", "FinalizationRegistry", "TopLevelAwait", "PrivateClassFields",
     "ClassStaticBlocks", "ErgonomicBrandChecks", "ErrorCause", "ArrayPrototypeAt", "Hashbang",
     "ArrayToReversed", "ArrayToSorted", "ArrayToSpliced", "ArrayWith" >>

ES_FEATURES ==
  ("ArraySpread" :> [minVersion |-> 6, astInfo |-> [nodeType |-> "ArrayExpression", childType |-> "SpreadElement"]])
  @@ ("let" :> [minVersion |-> 6, astInfo |-> [nodeType |-> "VariableDeclaration", kind |-> "let"]])
  @@ ("const" :> [minVersion |-> 6, astInfo |-> [nodeType |-> "VariableDeclaration", kind |-> "const"]])
  @@ ("class" :> [minVersion |-> 6, astInfo |-> [nodeType |-> "ClassDeclaration"]])
  @@ ("extends" :> [minVersion |-> 6, astInfo |-> [nodeType |-> "ClassDeclaration", property |-> "superClass"]])
  @@ ("import" :> [minVersion |-> 6, astInfo |-> [nodeType |-> "ImportDeclaration"]])
  @@ ("export" :> [minVersion |-> 6, astInfo |-> [nodeType |-> "ExportDeclaration"]])
  @@ ("ArrowFunctions" :> [minVersion |-> 6, astInfo |-> [nodeType |-> "ArrowFunctionExpression"]])
  @@ ("TemplateLiterals" :> [minVersion |-> 6, astInfo |-> [nodeType |-> "TemplateLiteral"]])
  @@ ("Destructuring" :> [minVersion |-> 6, astInfo |-> [nodeType |-> "ObjectPattern"]])
  @@ ("DefaultParams" :> [minVersion |-> 6, astInfo |-> [nodeType |-> "AssignmentPattern"]])
  @@ ("RestSpread" :> [minVersion |-> 6, astInfo |-> [nodeType |-> "RestElement"]])
  @@ ("ForOf" :> [minVersion |-> 6, astInfo |-> [nodeType |-> "ForOfStatement"]])
  @@ ("Map" :> [minVersion |-> 6, astInfo |-> [nodeType |-> "NewExpression", callee |-> "Map"]])
  @@ ("Set" :> [minVersion |-> 6, astInfo |-> [nodeType |-> "NewExpression", callee |-> "Set"]])
  @@ ("WeakMap" :> [minVersion |-> 6, astInfo |-> [nodeType |-> "NewExpression", callee |-> "WeakMap"]])
  @@ ("WeakSet" :> [minVersion |-> 6, astInfo |-> [nodeType |-> "NewExpression", callee |-> "WeakSet"]])
  @@ ("Promise" :> [minVersion |-> 6, astInfo |-> [nodeType |-> "NewExpression", callee |-> "Promise"]])
  @@ ("PromiseResolve" :> [minVersion |-> 6, astInfo |-> [nodeType |-> "CallExpression", object |-> "Promise", property |-> "resolve"]])
  @@ ("PromiseReject" :> [minVersion |-> 6, astInfo |-> [nodeType |-> "CallExpression", object |-> "Promise", property |-> "reject"]])
  @@ ("Symbol" :> [minVersion |-> 6, astInfo |-> [nodeType |-> "CallExpression", callee |-> "Symbol"]])
  @@ ("ExponentOperator" :> [minVersion |-> 7, astInfo |-> [nodeType |-> "BinaryExpression", operator |-> "**"]])
  @@ ("ArrayPrototypeIncludes" :> [minVersion |-> 7, astInfo |-> [nodeType |-> "CallExpression", property |-> "includes"]])
  @@ ("AsyncAwait" :> [minVersion |-> 8, astInfo |-> [nodeType |-> "AwaitExpression"]])
  @@ ("ObjectValues" :> [minVersion |-> 8, astInfo |-> [nodeType |-> "CallExpression", object |-> "Object", property |-> "values"]])
  @@ ("ObjectEntries" :> [minVersion |-> 8, astInfo |-> [nodeType |-> "CallExpression", object |-> "Object", property |-> "entries"]])
  @@ ("StringPadStart" :> [minVersion |-> 8, astInfo |-> [nodeType |-> "CallExpression", property |-> "padStart"]])
  @@ ("StringPadEnd" :> [minVersion |-> 8, astInfo |-> [nodeType |-> "CallExpression", property |-> "padEnd"]])
  @@ ("ObjectSpread" :> [minVersion |-> 9, astInfo |-> [nodeType |-> "ObjectExpression", childType |-> "SpreadElement"]])
  @@ ("AsyncIteration" :> [minVersion |-> 9, astInfo |-> [nodeType |-> "ForAwaitStatement"]])
  @@ ("PromiseFinally" :> [minVersion |-> 9, astInfo |-> [nodeType |-> "CallExpression", property |-> "finally"]])
  @@ ("ArrayFlat" :> [minVersion |-> 10, astInfo |-> [nodeType |-> "CallExpression", property |-> "flat"]])
  @@ ("ArrayFlatMap" :> [minVersion |-> 10, astInfo |-> [nodeType |-> "CallExpression", property |-> "flatMap"]])
  @@ ("ObjectFromEntries" :> [minVersion |-> 10, astInfo |-> [nodeType |-> "CallExpression", object |-> "Object", property |-> "fromEntries"]])
  @@ ("OptionalCatchBinding" :> [minVersion |-> 10, astInfo |-> [nodeType |-> "CatchClause", noParam |-> TRUE]])
  @@ ("BigInt" :> [minVersion |-> 11, astInfo |-> [nodeType |-> "BigIntLiteral"]])
  @@ ("DynamicImport" :> [minVersion |-> 11, astInfo |-> [nodeType |-> "ImportExpression"]])
  @@ ("OptionalChaining" :> [minVersion |-> 11, astInfo |-> [nodeType |-> "ChainExpression"]])
  @@ ("NullishCoalescing" :> [minVersion |-> 11, astInfo |-> [nodeType |-> "LogicalExpression", operator |-> "??"]])
  @@ ("globalThis" :> [minVersion |-> 11, astInfo |-> [nodeType |-> "Identifier", name |-> "globalThis"]])
  @@ ("PromiseAllSettled" :> [minVersion |-> 11, astInfo |-> [nodeType |-> "CallExpression", property |-> "allSettled"]])
  @@ ("StringMatchAll" :> [minVersion |-> 11, astInfo |-> [nodeType |-> "CallExpression", property |-> "matchAll"]])
  @@ ("LogicalAssignment" :> [minVersion |-> 12, astInfo |-> [nodeType |-> "AssignmentExpression", operators |-> <<"&&=", "||=", "??=">>]])
  @@ ("NumericSeparators" :> [minVersion |-> 12, astInfo |-> [nodeType |-> "NumericLiteralWithSeparator"]])
  @@ ("StringReplaceAll" :> [minVersion |-> 12, astInfo |-> [nodeType |-> "CallExpression", property |-> "replaceAll"]])
  @@ ("PromiseAny" :> [minVersion |-> 12, astInfo |-> [nodeType |-> "CallExpression", property |-> "any"]])
  @@ ("WeakRef" :> [minVersion |-> 12, astInfo |-> [nodeType |-> "NewExpression", callee |-> "WeakRef"]])
  @@ ("FinalizationRegistry" :> [minVersion |-> 12, astInfo |-> [nodeType |-> "NewExpression", callee |-> "FinalizationRegistry"]])
  @@ ("TopLevelAwait" :> [minVersion |-> 13, astInfo |-> [nodeType |-> "AwaitExpression", topLevel |-> TRUE]])
  @@ ("PrivateClassFields" :> [minVersion |-> 13, astInfo |-> [nodeType |-> "PropertyDefinition", isPrivate |-> TRUE]])
  @@ ("ClassStaticBlocks" :> [minVersion |-> 13, astInfo |-> [nodeType |-> "StaticBlock"]])
  @@ ("ErgonomicBrandChecks" :> [minVersion |-> 13, astInfo |-> [nodeType |-> "BinaryExpression", operator |-> "in", leftIsPrivate |-> TRUE]])
  @@ ("ErrorCause" :> [minVersion |-> 13, astInfo |-> [nodeType |-> "NewExpression", callee |-> "Error", hasOptionsCause |-> TRUE]])
  @@ ("ArrayPrototypeAt" :> [minVersion |-> 13, astInfo |-> [nodeType |-> "CallExpression", property |-> "at"]])
  @@ ("Hashbang" :> [minVersion |-> 14, astInfo |-> [nodeType |-> "Hashbang"]])
  @@ ("ArrayToReversed" :> [minVersion |-> 14, astInfo |-> [nodeType |-> "CallExpression", property |-> "toReversed"]])
  @@ ("ArrayToSorted" :> [minVersion |-> 14, astInfo |-> [nodeType |-> "CallExpression", property |-> "toSorted"]])
  @@ ("ArrayToSpliced" :> [minVersion |-> 14, astInfo |-> [nodeType |-> "CallExpression", property |-> "toSpliced"]])
  @@ ("ArrayWith" :> [minVersion |-> 14, astInfo |-> [nodeType |-> "CallExpression", property |-> "with"]])

FeatureNames == DOMAIN ES_FEATURES

(***************************************************************************)
(* The node matchers of utils.js.                                          *)
(***************************************************************************)
checkVarKindMatch(node, astInfo) ==
  IF ~Truthy(GetStr(astInfo, "kind")) THEN FALSE
  ELSE GetStr(node, "kind") = astInfo.kind

checkCalleeMatch(node, astInfo) ==
  IF ~Truthy(GetStr(astInfo, "callee")) THEN FALSE
  ELSE IF GetNode(node, "callee") = NoNode
          \/ GetNode(node, "callee").type /= "Identifier" THEN FALSE
  ELSE GetStr(node.callee, "name") = astInfo.callee

\* checkOperatorMatch reading the field checkVarKindMatch reads
checkOperatorMatch_kind(node, astInfo) ==
  IF ~Truthy(GetStr(astInfo, "operator")) THEN FALSE
  ELSE GetStr(node, "kind") = astInfo.operator

checkOperatorMatch(node, astInfo) ==
  IF ~Truthy(GetStr(astInfo, "operator")) THEN FALSE
  ELSE GetStr(node, "operator") = astInfo.operator

checkDefault == TRUE

\* checkCallExpression whose bare-call branch tests only astInfo.callee
checkCallExpression_calleeOnly(node, astInfo) ==
  LET callee   == GetNode(node, "callee")
      object   == GetStr(astInfo, "object")
      property == GetStr(astInfo, "property")
  IN  IF node.type /= "CallExpression" THEN FALSE
      ELSE IF callee.type = "MemberExpression" THEN
        IF Truthy(object) \/ Truthy(property) THEN
             /\ Truthy(object) =>
                  /\ GetNode(callee, "object") /= NoNode
                  /\ GetNode(callee, "object").type = "Identifier"
                  /\ GetStr(callee.object, "name") = object
             /\ Truthy(property) =>
                  /\ GetNode(callee, "property") /= NoNode
                  /\ GetNode(callee, "property").type = "Identifier"
                  /\ GetStr(callee.property, "name") = property
        ELSE FALSE
      ELSE IF callee.type = "Identifier" THEN
        /\ Truthy(GetStr(astInfo, "callee"))
        /\ GetStr(callee, "name") = astInfo.callee
      ELSE FALSE

checkCallExpression(node, astInfo) ==
  LET callee   == GetNode(node, "callee")
      object   == GetStr(astInfo, "object")
      property == GetStr(astInfo, "property")
  IN  IF node.type /= "CallExpression" THEN FALSE
      ELSE IF callee.type = "MemberExpression" THEN
        IF Truthy(object) \/ Truthy(property) THEN
             /\ Truthy(object) =>
                  /\ GetNode(callee, "object") /= NoNode
                  /\ GetNode(callee, "object").type = "Identifier"
                  /\ GetStr(callee.object, "name") = object
             /\ Truthy(property) =>
                  /\ GetNode(callee, "property") /= NoNode
                  /\ GetNode(callee, "property").type = "Identifier"
                  /\ GetStr(callee.property, "name") = property
        ELSE FALSE
      ELSE IF callee.type = "Identifier" THEN
        /\ Truthy(GetStr(astInfo, "callee"))
        /\ ~Truthy(object)
        /\ ~Truthy(property)
        /\ GetStr(callee, "name") = astInfo.callee
      ELSE FALSE

checkObjectExpression(node, astInfo) ==
  IF GetStr(astInfo, "childType") = "SpreadElement"
  THEN \E i \in DOMAIN node.properties : node.properties[i].type = "SpreadElement"
  ELSE FALSE

\* checkClassDeclaration with a single negation of node.superClass
checkClassDeclaration_negated(node, astInfo) ==
  IF GetStr(astInfo, "property") = "superClass"
  THEN GetNode(node, "superClass") = NoNode
  ELSE TRUE

checkClassDeclaration(node, astInfo) ==
  IF GetStr(astInfo, "property") = "superClass"
  THEN GetNode(node, "superClass") /= NoNode
  ELSE TRUE

checkBinaryExpression(node, astInfo) ==
  IF ~Truthy(GetStr(astInfo, "operator")) THEN FALSE
  ELSE GetStr(node, "operator") = astInfo.operator

checkForAwaitStatement(node) == TRUE

checkCatchClause(node, astInfo) ==
  IF "noParam" \in DOMAIN astInfo /\ astInfo.noParam
  THEN GetNode(node, "param") = NoNode
  ELSE FALSE

\* typeof node.value === 'bigint'; a literal's value is modelled by its typeof
checkBigIntLiteral(node) == GetStr(node, "valueType") = "bigint"

\* the keys of checkMap other than default
CheckMapKeys ==
  { "VariableDeclaration", "ArrowFunctionExpression", "ChainExpression",
    "LogicalExpression", "NewExpression", "CallExpression", "ObjectExpression",
    "ClassDeclaration", "BinaryExpression", "ForAwaitStatement", "CatchClause",
    "Literal" }

\* checkMap[key](node, astInfo); key "default" is the catch-all
checkMap(key, node, astInfo) ==
  CASE key = "VariableDeclaration"     -> checkVarKindMatch(node, astInfo)
    [] key = "ArrowFunctionExpression" -> checkDefault
    [] key = "ChainExpression"         -> checkDefault
    [] key = "LogicalExpression"       -> checkOperatorMatch(node, astInfo)
    [] key = "NewExpression"           -> checkCalleeMatch(node, astInfo)
    [] key = "CallExpression"          -> checkCallExpression(node, astInfo)
    [] key = "ObjectExpression"        -> checkObjectExpression(node, astInfo)
    [] key = "ClassDeclaration"        -> checkClassDeclaration(node, astInfo)
    [] key = "BinaryExpression"        -> checkBinaryExpression(node, astInfo)
    [] key = "ForAwaitStatement"       -> checkForAwaitStatement(node)
    [] key = "CatchClause"             -> checkCatchClause(node, astInfo)
    [] key = "Literal"                 ->
         IF astInfo.nodeType = "BigIntLiteral" THEN checkBigIntLiteral(node)
         ELSE FALSE
    [] OTHER                           -> FALSE

(***************************************************************************)
(* Where a matcher raises instead of returning: reading a property of an   *)
(* absent (undefined) field is a TypeError.  The matchers above give the   *)
(* returned value and are meaningful only where the matcher returns.       *)
(***************************************************************************)
\* lines 41-42: node.callee.type with node.callee absent
checkCallExpressionThrows(node, astInfo) ==
  node.type = "CallExpression" /\ GetNode(node, "callee") = NoNode

\* line 88: node.properties.some with node.properties absent
checkObjectExpressionThrows(node, astInfo) ==
  GetStr(astInfo, "childType") = "SpreadElement" /\ "properties" \notin DOMAIN node

\* whether checkMap[key](node, astInfo) raises; the other matchers only compare fields
checkMapThrows(key, node, astInfo) ==
  CASE key = "CallExpression"   -> checkCallExpressionThrows(node, astInfo)
    [] key = "ObjectExpression" -> checkObjectExpressionThrows(node, astInfo)
    [] OTHER                    -> FALSE

(***************************************************************************)
(* Polyfill signatures of constants.js: the regular expression (by its     *)
(* source text) and the feature name it stands for.                        *)
(***************************************************************************)
POLYFILL_PATTERNS ==
  << [pattern |-> "Array\\.prototype\\.toSorted",        feature |-> "ArrayToSorted"],
     [pattern |-> "Array\\.prototype\\.findLast",        feature |-> "ArrayFindLast"],
     [pattern |-> "Array\\.prototype\\.findLastIndex",   feature |-> "ArrayFindLastIndex"],
     [pattern |-> "Array\\.prototype\\.at",              feature |-> "ArrayAt"],
     [pattern |-> "String\\.prototype\\.replaceAll",     feature |-> "StringReplaceAll"],
     [pattern |-> "String\\.prototype\\.matchAll",       feature |-> "StringMatchAll"],
     [pattern |-> "String\\.prototype\\.at",             feature |-> "StringAt"],
     [pattern |-> "Object\\.hasOwn",                     feature |-> "ObjectHasOwn"],
     [pattern |-> "Promise\\.any",                       feature |-> "PromiseAny"],
     [pattern |-> "RegExp\\.prototype\\.exec",           feature |-> "RegExpExec"],
     [pattern |-> "globalThis",                          feature |-> "GlobalThis"] >>

IMPORT_PATTERNS ==
  << [pattern |-> "from\\s+['\"]core-js\\/modules\\/es\\.array\\.to-sorted['\"]",       feature |-> "ArrayToSorted"],
     [pattern |-> "from\\s+['\"]core-js\\/modules\\/es\\.array\\.find-last['\"]",       feature |-> "ArrayFindLast"],
     [pattern |-> "from\\s+['\"]core-js\\/modules\\/es\\.array\\.find-last-index['\"]", feature |-> "ArrayFindLastIndex"],
     [pattern |-> "from\\s+['\"]core-js\\/modules\\/es\\.array\\.at['\"]",              feature |-> "ArrayAt"],
     [pattern |-> "from\\s+['\"]core-js\\/modules\\/es\\.string\\.replace-all['\"]",    feature |-> "StringReplaceAll"],
     [pattern |-> "from\\s+['\"]core-js\\/modules\\/es\\.string\\.match-all['\"]",      feature |-> "StringMatchAll"],
     [pattern |-> "from\\s+['\"]core-js\\/modules\\/es\\.string\\.at['\"]",             feature |-> "StringAt"],
     [pattern |-> "from\\s+['\"]core-js\\/modules\\/es\\.object\\.has-own['\"]",        feature |-> "ObjectHasOwn"],
     [pattern |-> "from\\s+['\"]core-js\\/modules\\/es\\.promise\\.any['\"]",           feature |-> "PromiseAny"],
     [pattern |-> "from\\s+['\"]core-js\\/modules\\/es\\.regexp\\.exec['\"]",           feature |-> "RegExpExec"],
     [pattern |-> "from\\s+['\"]core-js\\/modules\\/es\\.global-this['\"]",             feature |-> "GlobalThis"] >>

(***************************************************************************)
(* Feature detection (detectFeatures.js), written from the specification,  *)
(* section 4.2: every node is visited once, the catalog is narrowed to the *)
(* entries whose nodeType is the node's type, the matcher of that type (or *)
(* the catch-all) decides, and the unsupported list is the found features  *)
(* whose minVersion exceeds the target, without the ignored ones.  A tree  *)
(* is the set of its nodes.                                                *)
(***************************************************************************)
Matches(node, astInfo) ==
  checkMap(IF node.type \in CheckMapKeys THEN node.type ELSE "default", node, astInfo)

FoundFeatures(tree) ==
  UNION { { f \in FeatureNames : /\ ES_FEATURES[f].astInfo.nodeType = node.type
                                 /\ Matches(node, ES_FEATURES[f].astInfo) } : node \in tree }

detectFeatures(tree, ecmaVersion, ignoreList) ==
  LET found == FoundFeatures(tree)
      unsupported == { f \in found : /\ ES_FEATURES[f].minVersion > ecmaVersion
                                     /\ f \notin ignoreList }
      Unsupported(f) == f \in unsupported
  IN  [ foundFeatures       |-> found,
        unsupportedFeatures |-> SelectSeq(FeatureOrder, Unsupported) ]

(***************************************************************************)
(* The ignore list (utils.parseIgnoreList), written from the specification,*)
(* sections 3 and 4.4: the inline ignore names and the allow-listed names  *)
(* are unioned into one membership filter, together with the names listed  *)
(* in the ignore file when it can be read; an unreadable file leaves the   *)
(* inline names alone.                                                     *)
(***************************************************************************)
\* the ignore files of the file system, each with the feature names it lists
IgnoreFiles == [ f \in {"ignore.json"} |-> {"ArrayToSorted"} ]

\* fs.existsSync for the path of an ignore file
existsSync(path) == path \in DOMAIN IgnoreFiles

parseIgnoreList(cfg) ==
  cfg.ignore \cup cfg.allowList
    \cup (IF Truthy(cfg.ignoreFile) /\ existsSync(cfg.ignoreFile)
          THEN IgnoreFiles[cfg.ignoreFile] ELSE {})

(***************************************************************************)
(* Polyfill detection (polyfillDetector.js), written from the              *)
(* specification, section 4.4: a signature found anywhere in the text      *)
(* stands for its feature.  A text is modelled by the set of signature     *)
(* patterns that match it.                                                 *)
(***************************************************************************)
detectPolyfills(text) ==
  { POLYFILL_PATTERNS[i].feature :
      i \in { j \in DOMAIN POLYFILL_PATTERNS : POLYFILL_PATTERNS[j].pattern \in text } }
  \cup
  { IMPORT_PATTERNS[i].feature :
      i \in { j \in DOMAIN IMPORT_PATTERNS : IMPORT_PATTERNS[j].pattern \in text } }

filterPolyfilled(unsupportedFeatures, polyfills) ==
  LET Kept(f) == f \notin polyfills
  IN  SelectSeq(unsupportedFeatures, Kept)

(***************************************************************************)
(* Version tokens.  The switch of runChecks gives the edition as a string  *)
(* of decimal digits, which parseInt(_, 10) turns into the integer; the    *)
(* browserslist path gives an integer, turned into a string by toString.   *)
(* A string of digits is the sequence of its characters.                   *)
(***************************************************************************)
DigitValue(c) ==
  CASE c = "0" -> 0 [] c = "1" -> 1 [] c = "2" -> 2 [] c = "3" -> 3 [] c = "4" -> 4
    [] c = "5" -> 5 [] c = "6" -> 6 [] c = "7" -> 7 [] c = "8" -> 8 [] c = "9" -> 9

DigitChar(d) ==
  CASE d = 0 -> "0" [] d = 1 -> "1" [] d = 2 -> "2" [] d = 3 -> "3" [] d = 4 -> "4"
    [] d = 5 -> "5" [] d = 6 -> "6" [] d = 7 -> "7" [] d = 8 -> "8" [] d = 9 -> "9"

RECURSIVE parseInt(_)
parseInt(s) ==
  IF s = <<>> THEN 0
  ELSE 10 * parseInt(SubSeq(s, 1, Len(s) - 1)) + DigitValue(s[Len(s)])

RECURSIVE toString(_)
toString(n) ==
  IF n < 10 THEN << DigitChar(n) >>
  ELSE Append(toString(n \div 10), DigitChar(n % 10))

ES4_MSG == "ES4 is not supported."

INVALID_MSG == "Invalid ecmaScript version, please pass a valid version, use --help for help"

\* the switch with its es4 case and its es2021 label given
SwitchWith(expectedEcmaVersion, es4Case, es2021Case) ==
  CASE expectedEcmaVersion = "es3"  -> [ecmaVersion |-> <<"3">>, error |-> ""]
    [] expectedEcmaVersion = "es4"  -> es4Case
    [] expectedEcmaVersion = "es5"  -> [ecmaVersion |-> <<"5">>, error |-> ""]
    [] expectedEcmaVersion \in {"es6", "es2015"}  -> [ecmaVersion |-> <<"6">>, error |-> ""]
    [] expectedEcmaVersion \in {"es7", "es2016"}  -> [ecmaVersion |-> <<"7">>, error |-> ""]
    [] expectedEcmaVersion \in {"es8", "es2017"}  -> [ecmaVersion |-> <<"8">>, error |-> ""]
    [] expectedEcmaVersion \in {"es9", "es2018"}  -> [ecmaVersion |-> <<"9">>, error |-> ""]
    [] expectedEcmaVersion \in {"es10", "es2019"} -> [ecmaVersion |-> <<"1", "0">>, error |-> ""]
    [] expectedEcmaVersion \in {"es11", "es2020"} -> [ecmaVersion |-> <<"1", "1">>, error |-> ""]
    [] expectedEcmaVersion = "es12" -> [ecmaVersion |-> <<"1", "2">>, error |-> ""]
    [] expectedEcmaVersion = "es2021" -> es2021Case
    [] expectedEcmaVersion \in {"es13", "es2022"} -> [ecmaVersion |-> <<"1", "3">>, error |-> ""]
    [] expectedEcmaVersion \in {"es14", "es2023"} -> [ecmaVersion |-> <<"1", "4">>, error |-> ""]
    [] OTHER -> [ecmaVersion |-> <<>>, error |-> INVALID_MSG]

\* the switch with the label es2021 put on the case of es11
VersionSwitch_es2021(expectedEcmaVersion) ==
  SwitchWith(expectedEcmaVersion, [ecmaVersion |-> <<>>, error |-> ES4_MSG],
             [ecmaVersion |-> <<"1", "1">>, error |-> ""])

\* the switch whose es4 case, without its exit, falls through to the case of es5
VersionSwitch_es4(expectedEcmaVersion) ==
  SwitchWith(expectedEcmaVersion, [ecmaVersion |-> <<"5">>, error |-> ""],
             [ecmaVersion |-> <<"1", "2">>, error |-> ""])

\* the switch over expectedEcmaVersion: the digits, or the error that ends the run
VersionSwitch(expectedEcmaVersion) ==
  CASE expectedEcmaVersion = "es3"  -> [ecmaVersion |-> <<"3">>, error |-> ""]
    [] expectedEcmaVersion = "es4"  -> [ecmaVersion |-> <<>>, error |-> ES4_MSG]
    [] expectedEcmaVersion = "es5"  -> [ecmaVersion |-> <<"5">>, error |-> ""]
    [] expectedEcmaVersion \in {"es6", "es2015"}  -> [ecmaVersion |-> <<"6">>, error |-> ""]
    [] expectedEcmaVersion \in {"es7", "es2016"}  -> [ecmaVersion |-> <<"7">>, error |-> ""]
    [] expectedEcmaVersion \in {"es8", "es2017"}  -> [ecmaVersion |-> <<"8">>, error |-> ""]
    [] expectedEcmaVersion \in {"es9", "es2018"}  -> [ecmaVersion |-> <<"9">>, error |-> ""]
    [] expectedEcmaVersion \in {"es10", "es2019"} -> [ecmaVersion |-> <<"1", "0">>, error |-> ""]
    [] expectedEcmaVersion \in {"es11", "es2020"} -> [ecmaVersion |-> <<"1", "1">>, error |-> ""]
    [] expectedEcmaVersion \in {"es12", "es2021"} -> [ecmaVersion |-> <<"1", "2">>, error |-> ""]
    [] expectedEcmaVersion \in {"es13", "es2022"} -> [ecmaVersion |-> <<"1", "3">>, error |-> ""]
    [] expectedEcmaVersion \in {"es14", "es2023"} -> [ecmaVersion |-> <<"1", "4">>, error |-> ""]
    [] OTHER -> [ecmaVersion |-> <<>>, error |-> INVALID_MSG]

(***************************************************************************)
(* The browser path (browserslist.js), written from the specification,     *)
(* section 4.3: the answer is the maximum of the editions the resolved     *)
(* browsers need; an empty browser set is a failure.  The resolved         *)
(* browsers are given by the editions they need.                           *)
(***************************************************************************)
SetMax(S) == CHOOSE m \in S : \A x \in S : x <= m

getESVersionFromBrowserslist(browsers) ==
  IF browsers = {} THEN [threw |-> TRUE, version |-> 0]
  ELSE [threw |-> FALSE, version |-> SetMax(browsers)]

(***************************************************************************)
(* Source files given to a run.  A file has the syntax tree the parser     *)
(* returns for it (as the set of its nodes), the polyfill signatures that  *)
(* occur in its text, and syntaxLevel, the least edition whose grammar     *)
(* accepts the text (the ?? operator is ES2020 syntax; a method call is    *)
(* ES3 syntax whatever the method).                                        *)
(***************************************************************************)
Ident(name) == [type |-> "Identifier", name |-> name]

Member(object, property) ==
  [type |-> "MemberExpression", object |-> Ident(object), property |-> Ident(property)]

\* const x = a ?? b;
NullishTree ==
  { [type |-> "VariableDeclaration", kind |-> "const"],
    [type |-> "VariableDeclarator"],
    [type |-> "LogicalExpression", operator |-> "??"],
    Ident("x"), Ident("a"), Ident("b") }

\* var s = arr.toSorted();
SortedTree ==
  { [type |-> "VariableDeclaration", kind |-> "var"],
    [type |-> "VariableDeclarator"],
    [type |-> "CallExpression", callee |-> Member("arr", "toSorted")],
    Member("arr", "toSorted"),
    Ident("s"), Ident("arr"), Ident("toSorted") }

\* class C extends D {}
ClassTree ==
  { [type |-> "ClassDeclaration", superClass |-> Ident("D")],
    [type |-> "ClassBody"],
    Ident("C"), Ident("D") }

\* Array.prototype.toSorted = function () {}; var s = arr.toSorted();
PolyfilledTree ==
  SortedTree \cup
  { [type |-> "AssignmentExpression", operator |-> "="],
    [type |-> "FunctionExpression"],
    Ident("Array"), Ident("prototype") }

Files ==
  ( "nullish.js"    :> [syntaxLevel |-> 11, tree |-> NullishTree,    text |-> {}] )
  @@ ( "sorted.js"     :> [syntaxLevel |-> 3,  tree |-> SortedTree,     text |-> {}] )
  @@ ( "polyfilled.js" :> [syntaxLevel |-> 3,  tree |-> PolyfilledTree,
                           text |-> {"Array\\.prototype\\.toSorted"}] )

FileNames == DOMAIN Files

\* acorn.parse(code, acornOpts): TRUE when it returns, FALSE when it throws
acornParse(file, opts) == Files[file].syntaxLevel <= opts.ecmaVersion

\* glob.sync(pattern): a pattern is the name of the one file it matches, or matches none
NoMatch == "nomatch/*.js"

Patterns == FileNames \cup {NoMatch}

globSync(pattern) == IF pattern \in FileNames THEN << pattern >> ELSE <<>>

(***************************************************************************)
(* Bounds of the model.                                                    *)
(***************************************************************************)
MaxConfigs == 2

MaxPatterns == 2

RECURSIVE SeqsUpTo(_, _)
SeqsUpTo(S, n) ==
  IF n = 0 THEN { <<>> }
  ELSE LET shorter == SeqsUpTo(S, n - 1)
       IN  shorter \cup { Append(s, x) : s \in { t \in shorter : Len(t) = n - 1 }, x \in S }

PatternLists == SeqsUpTo(Patterns, MaxPatterns)

\* config.not: nothing skipped, or the paths that include "sorted.js"
NotLists == { <<>>, << "sorted.js" >> }

\* the explicit version tokens and the keyword a configuration may carry
Tokens == { Undefined, "es4", "esnext", "es10", "es11", "checkBrowser" }

\* config.checkBrowser: absent, true or false
CheckBrowserValues == { Undefined, "true", "false" }

\* names a configuration may ignore or allow
ListedNames == { {}, {"ArrayToSorted"} }

\* what the external browser resolver answers: the editions the browsers need
BrowserTargets == { {}, {9, 11, 8} }

\* the options of a configuration that runChecks keeps in locals
\* config.ignoreFile: absent, a file that does not exist, a file that does
IgnoreFilePaths == { Undefined, "missing.json", "ignore.json" }

ConfigOptions ==
  [ ecmaVersion       : Tokens,
    checkBrowser      : CheckBrowserValues,
    checkFeatures     : BOOLEAN,
    checkForPolyfills : BOOLEAN,
    ignore            : ListedNames,
    allowList         : ListedNames,
    ignoreFile        : IgnoreFilePaths ]

\* The configurations given to a run.  With checkBrowser set, runChecks reads the
\* token only for its presence (line 232) and for being the keyword (line 268): an
\* absent, an invalid and a valid token stand for all; the browser path gives the
\* edition and nothing else, and the polyfill scan and the allow list, which read
\* the edition through detection alone, are given with the explicit tokens.  The
\* ignore file is read for its existence (line 228) and by parseIgnoreList alone: it
\* is given with one valid token and without the options that do not read the
\* ignore list.
Configs ==
  { c \in ConfigOptions :
      /\ c.checkBrowser /= Undefined =>
            /\ c.ecmaVersion \in {Undefined, "es4", "es10"}
            /\ ~c.checkForPolyfills /\ c.allowList = {}
      /\ c.ignoreFile /= Undefined =>
            /\ c.ecmaVersion = "es10" /\ c.checkBrowser = Undefined
            /\ ~c.checkForPolyfills /\ c.allowList = {} }

NoConfig ==
  [ ecmaVersion |-> Undefined, checkBrowser |-> Undefined, checkFeatures |-> FALSE,
    checkForPolyfills |-> FALSE, ignore |-> {}, allowList |-> {}, ignoreFile |-> Undefined ]

(***************************************************************************)
(* Messages of the logger.                                                 *)
(***************************************************************************)
NO_VERSION_MSG == "No ecmaScript version or checkBrowser option specified in configuration"

NO_PATTERNS_MSG == "ES-Check: No file patterns specified to check."

NO_FILES_FOR_PATTERN_MSG == "ES-Check: Did not find any files to check for pattern"

NO_FILES_MSG == "ES-Check: Did not find any files to check across all patterns"

IGNORE_FILE_MSG == "Warning: Ignore file does not exist or is not accessible"
LOOSE_MSG == "ES-Check: No file patterns specified or no files found (running in loose mode)."

BROWSERSLIST_MSG == "Error determining ES version from browserslist"

ERRORS_MSG == "ES-Check: there were N ES version matching errors."

FILE_ERROR_MSG == "ES-Check Error"

SUCCESS_MSG == "ES-Check: there were no ES version matching errors!"

Entry(level, msg, n, file) == [level |-> level, msg |-> msg, n |-> n, file |-> file]

(***************************************************************************)
(* State.                                                                  *)
(*   nConfigs, cur     the length of the array of configurations, and how  *)
(*                     many of them the loop has taken                     *)
(*   pc                setup | resolve | check | end | done (the run), or  *)
(*                     probe | probed (a direct call of a pure function)   *)
(*   config            the options of the current configuration            *)
(*   filteredFiles, fileIdx   the files to check and the forEach position  *)
(*   ecmaVersion       the resolved edition, a string of digits            *)
(*   errArray          the per-file failures of the current configuration  *)
(*   hasErrors         runChecks' flag                                     *)
(*   polyfillDetector  whether the module-level detector has been loaded   *)
(*   log               the logger calls made so far                        *)
(*   exitCode          -1 while the process runs, then its exit code       *)
(*   checked           for each file of the current configuration handled  *)
(*                     so far: what was called for it                      *)
(*   runParsed         whether acorn.parse has been called in this run     *)
(*   runFailures       the per-file failures recorded in this run          *)
(*   probeIn, probeOut argument and result of a direct call                *)
(***************************************************************************)
VARIABLES nConfigs, warnLevel, cur, pc, config, filteredFiles, fileIdx, ecmaVersion,
          errArray, hasErrors, polyfillDetector, log, exitCode,
          checked, runParsed, runFailures, probeIn, probeOut

vars == << nConfigs, warnLevel, cur, pc, config, filteredFiles, fileIdx, ecmaVersion,
           errArray, hasErrors, polyfillDetector, log, exitCode,
           checked, runParsed, runFailures, probeIn, probeOut >>

(***************************************************************************)
(* runChecks, one loop iteration up to the per-file loop.                  *)
(***************************************************************************)
RECURSIVE Concat(_)
Concat(ss) == IF ss = <<>> THEN <<>> ELSE Head(ss) \o Concat(Tail(ss))

\* lines 248-255: the first pattern that matches no file, 0 when every pattern matches
RECURSIVE FirstEmpty(_, _)
FirstEmpty(patterns, i) ==
  IF i > Len(patterns) THEN 0
  ELSE IF globSync(patterns[i]) = <<>> THEN i
  ELSE FirstEmpty(patterns, i + 1)

\* lines 362-375; a path without * is matched by filePath.includes, which for the
\* file names of the model is equality
filterForIgnore(globbedFiles, pathsToIgnore) ==
  LET Kept(filePath) == \A i \in DOMAIN pathsToIgnore : filePath /= pathsToIgnore[i]
  IN  IF Len(pathsToIgnore) > 0 THEN SelectSeq(globbedFiles, Kept) ELSE globbedFiles

\* lines 208-264: the error that ends the run ("" when none), the logger calls made,
\* and the matched files; warnEnabled is logger.isLevelEnabled('warn'), and
\* missingIsFatal is FALSE in the code, where a missing ignore file ends nothing
DiscoverOutcomeWith(cfg, patternsToGlob, looseGlobMatching, warnEnabled, missingIsFatal) ==
  LET allMatchedFiles == Concat([i \in DOMAIN patternsToGlob |-> globSync(patternsToGlob[i])])
      ignoreFilePath == cfg.ignoreFile
      missing == Truthy(ignoreFilePath) /\ ~existsSync(ignoreFilePath)
      warned  == IF missing /\ warnEnabled
                 THEN << Entry("warn", IGNORE_FILE_MSG, 0, ignoreFilePath) >> ELSE <<>>
      Fatal(msg) == [fatal |-> msg, logs |-> warned \o << Entry("error", msg, 0, "") >>,
                     files |-> <<>>]
  IN  IF missing /\ missingIsFatal
        THEN [fatal |-> IGNORE_FILE_MSG, logs |-> warned, files |-> <<>>]
      ELSE IF ~Truthy(cfg.ecmaVersion) /\ cfg.checkBrowser /= "true"
        THEN Fatal(NO_VERSION_MSG)
      ELSE IF patternsToGlob = <<>> /\ ~looseGlobMatching
        THEN Fatal(NO_PATTERNS_MSG)
      ELSE IF FirstEmpty(patternsToGlob, 1) /= 0 /\ ~looseGlobMatching
        THEN Fatal(NO_FILES_FOR_PATTERN_MSG)
      ELSE IF allMatchedFiles = <<>> /\ patternsToGlob /= <<>>
        THEN Fatal(NO_FILES_MSG)
      ELSE [ fatal |-> "",
             logs  |-> warned \o (IF allMatchedFiles = <<>> /\ looseGlobMatching
                                  THEN << Entry("warn", LOOSE_MSG, 0, "") >> ELSE <<>>),
             files |-> allMatchedFiles ]

\* the discovery that exits when the ignore file does not exist
DiscoverOutcome_fatalIgnoreFile(cfg, patternsToGlob, looseGlobMatching, warnEnabled) ==
  DiscoverOutcomeWith(cfg, patternsToGlob, looseGlobMatching, warnEnabled, TRUE)

DiscoverOutcome(cfg, patternsToGlob, looseGlobMatching, warnEnabled) ==
  DiscoverOutcomeWith(cfg, patternsToGlob, looseGlobMatching, warnEnabled, FALSE)

\* line 268
isBrowserslistCheck(cfg) ==
  cfg.ecmaVersion = "checkBrowser" \/ cfg.checkBrowser /= Undefined

\* the resolution that takes edition 5 when the resolver throws
ResolveVersion_default(cfg, browsers) ==
  IF isBrowserslistCheck(cfg)
  THEN LET r == getESVersionFromBrowserslist(browsers)
       IN  [ecmaVersion |-> toString(IF r.threw THEN 5 ELSE r.version), error |-> ""]
  ELSE VersionSwitch(cfg.ecmaVersion)

\* lines 266-339: the digits of the edition, or the error that ends the run
ResolveVersion(cfg, browsers) ==
  IF isBrowserslistCheck(cfg)
  THEN LET r == getESVersionFromBrowserslist(browsers)
       IN  IF r.threw THEN [ecmaVersion |-> <<>>, error |-> BROWSERSLIST_MSG]
           ELSE [ecmaVersion |-> toString(r.version), error |-> ""]
  ELSE VersionSwitch(cfg.ecmaVersion)

(***************************************************************************)
(* The per-file step (the forEach callback, lines 383-443).                *)
(***************************************************************************)
\* line 342
acornOpts == [ecmaVersion |-> parseInt(ecmaVersion)]

\* the callback with the checkFeatures guard, the ignore list and the polyfill step given:
\* the step of the source ("code"), the scan without the test of the list's length
\* ("always"), or the report of the list as detection gave it ("unfiltered")
CheckFileOutcomeWith(file, guarded, ignoreList, polyfillStep) ==
  LET parsedOk   == acornParse(file, acornOpts)
      esVersion  == parseInt(ecmaVersion)
      detected   == detectFeatures(Files[file].tree, esVersion, ignoreList)
      unsupportedFeatures == detected.unsupportedFeatures
      scan       == /\ config.checkForPolyfills
                    /\ (polyfillStep = "always" \/ Len(unsupportedFeatures) > 0)
      filteredUnsupportedFeatures ==
        IF scan /\ polyfillStep /= "unfiltered"
        THEN filterPolyfilled(unsupportedFeatures, detectPolyfills(Files[file].text))
        ELSE unsupportedFeatures
  IN  IF ~parsedOk
        THEN [ parsed |-> FALSE, detect |-> FALSE, polyfill |-> FALSE,
               errs |-> << [file |-> file, kind |-> "parse", features |-> <<>>] >> ]
      ELSE IF guarded /\ ~config.checkFeatures
        THEN [ parsed |-> TRUE, detect |-> FALSE, polyfill |-> FALSE, errs |-> <<>> ]
      ELSE [ parsed |-> TRUE, detect |-> TRUE, polyfill |-> scan,
             errs |-> IF Len(filteredUnsupportedFeatures) = 0 THEN <<>>
                      ELSE << [file |-> file, kind |-> "features",
                               features |-> filteredUnsupportedFeatures] >> ]

\* the callback without the early return of line 403
CheckFileOutcome_unguarded(file) ==
  CheckFileOutcomeWith(file, FALSE, parseIgnoreList(config), "code")

\* the callback that calls detectFeatures without its ignoreList argument
CheckFileOutcome_noIgnoreList(file) == CheckFileOutcomeWith(file, TRUE, {}, "code")

\* the callback that tests unsupportedFeatures.length at line 434, not the filtered list
CheckFileOutcome_unfiltered(file) ==
  CheckFileOutcomeWith(file, TRUE, parseIgnoreList(config), "unfiltered")

\* the callback that scans for polyfills whenever checkForPolyfills is set
CheckFileOutcome_alwaysScan(file) ==
  CheckFileOutcomeWith(file, TRUE, parseIgnoreList(config), "always")

CheckFileOutcome(file) ==
  LET parsedOk   == acornParse(file, acornOpts)
      esVersion  == parseInt(ecmaVersion)
      detected   == detectFeatures(Files[file].tree, esVersion, parseIgnoreList(config))
      unsupportedFeatures == detected.unsupportedFeatures
      scan       == config.checkForPolyfills /\ Len(unsupportedFeatures) > 0
      filteredUnsupportedFeatures ==
        IF scan THEN filterPolyfilled(unsupportedFeatures, detectPolyfills(Files[file].text))
        ELSE unsupportedFeatures
  IN  IF ~parsedOk
        THEN [ parsed |-> FALSE, detect |-> FALSE, polyfill |-> FALSE,
               errs |-> << [file |-> file, kind |-> "parse", features |-> <<>>] >> ]
      ELSE IF ~config.checkFeatures
        THEN [ parsed |-> TRUE, detect |-> FALSE, polyfill |-> FALSE, errs |-> <<>> ]
      ELSE [ parsed |-> TRUE, detect |-> TRUE, polyfill |-> scan,
             errs |-> IF Len(filteredUnsupportedFeatures) = 0 THEN <<>>
                      ELSE << [file |-> file, kind |-> "features",
                               features |-> filteredUnsupportedFeatures] >> ]

(***************************************************************************)
(* Initial states: a run of runChecks over 1..MaxConfigs configurations,   *)
(* or a direct call of detectFeatures or of the version switch.            *)
(***************************************************************************)
NoProbe == [kind |-> "none"]

\* the level of the logger given to runChecks, as far as the run has read it by
\* logger.isLevelEnabled('warn') (line 228)
WarnLevels == { "enabled", "disabled" }

IdleRun ==
  /\ warnLevel = "unread"
  /\ cur = 0
  /\ config = NoConfig
  /\ filteredFiles = <<>>
  /\ fileIdx = 0
  /\ ecmaVersion = <<>>
  /\ errArray = <<>>
  /\ hasErrors = FALSE
  /\ polyfillDetector = FALSE
  /\ log = <<>>
  /\ exitCode = -1
  /\ checked = <<>>
  /\ runParsed = FALSE
  /\ runFailures = 0

InitRun ==
  /\ pc = "setup"
  /\ nConfigs \in 1..MaxConfigs
  /\ IdleRun
  /\ probeIn = NoProbe
  /\ probeOut = NoProbe

\* What the run knows of the logger's level after line 228: the level is read when
\* the ignore file of the configuration does not exist, and it is the one read before
\* when there is one.
LevelsRead(cfg) ==
  IF Truthy(cfg.ignoreFile) /\ ~existsSync(cfg.ignoreFile)
  THEN IF warnLevel = "unread" THEN WarnLevels ELSE { warnLevel }
  ELSE { warnLevel }

\* The configurations read at position k of the list: an ignore file is named by
\* the last configuration of the list.
ConfigsAt(k) == { c \in Configs : c.ignoreFile /= Undefined => k = nConfigs }

(***************************************************************************)
(* The next configuration of the loop is read and its files are discovered *)
(* (lines 207-264).  The ignore filter of lines 362-375 reads nothing but  *)
(* config.not and the matched files, and is applied here to the matched    *)
(* files that the later steps keep.                                        *)
(***************************************************************************)
Discover ==
  /\ pc = "setup"
  /\ \E cfg \in ConfigsAt(cur + 1), patternsToGlob \in PatternLists,
        looseGlobMatching \in BOOLEAN, pathsToIgnore \in NotLists :
       \E level \in LevelsRead(cfg) :
         LET o == DiscoverOutcome(cfg, patternsToGlob, looseGlobMatching, level = "enabled")
         IN
           /\ warnLevel' = level
           /\ cur' = cur + 1
           /\ config' = cfg
           /\ log' = log \o o.logs
           /\ filteredFiles' = filterForIgnore(o.files, pathsToIgnore)
           /\ IF o.fatal /= ""
                THEN pc' = "done" /\ exitCode' = 1
                ELSE pc' = "resolve" /\ exitCode' = exitCode
  /\ UNCHANGED << nConfigs, fileIdx, ecmaVersion, errArray, hasErrors, polyfillDetector,
                  checked, runParsed, runFailures, probeIn, probeOut >>

\* the resolution whose error branches log and do not exit
Resolve_continue ==
  /\ pc = "resolve"
  /\ \E browsers \in (IF isBrowserslistCheck(config) THEN BrowserTargets ELSE { {} }) :
       LET r == ResolveVersion(config, browsers)
       IN  /\ ecmaVersion' = r.ecmaVersion
           /\ log' = IF r.error /= "" THEN Append(log, Entry("error", r.error, 0, "")) ELSE log
           /\ pc' = "check"
           /\ UNCHANGED exitCode
  /\ UNCHANGED << nConfigs, warnLevel, cur, config, filteredFiles, fileIdx, errArray, hasErrors,
                  polyfillDetector, checked, runParsed, runFailures, probeIn, probeOut >>

\* lines 266-381; browsers is what the external resolver answers when it is asked
Resolve ==
  /\ pc = "resolve"
  /\ \E browsers \in (IF isBrowserslistCheck(config) THEN BrowserTargets ELSE { {} }) :
       LET r == ResolveVersion(config, browsers)
       IN  /\ ecmaVersion' = r.ecmaVersion
           /\ IF r.error /= ""
                THEN /\ log' = Append(log, Entry("error", r.error, 0, ""))
                     /\ pc' = "done"
                     /\ exitCode' = 1
                ELSE /\ pc' = "check"
                     /\ UNCHANGED << log, exitCode >>
  /\ UNCHANGED << nConfigs, warnLevel, cur, config, filteredFiles, fileIdx, errArray, hasErrors,
                  polyfillDetector, checked, runParsed, runFailures, probeIn, probeOut >>

\* the forEach whose callback lets the parser's exception escape: the files after a
\* file that fails to parse are not visited
CheckFile_abort ==
  /\ pc = "check"
  /\ fileIdx < Len(filteredFiles)
  /\ LET file == filteredFiles[fileIdx + 1]
         o    == CheckFileOutcome(file)
     IN  /\ errArray' = errArray \o o.errs
         /\ runFailures' = runFailures + Len(o.errs)
         /\ runParsed' = TRUE
         /\ polyfillDetector' = (polyfillDetector \/ o.polyfill)
         /\ checked' = Append(checked, [file |-> file, parsed |-> o.parsed,
                                        detect |-> o.detect, polyfill |-> o.polyfill])
         /\ fileIdx' = IF o.parsed THEN fileIdx + 1 ELSE Len(filteredFiles)
  /\ UNCHANGED << nConfigs, warnLevel, cur, pc, config, filteredFiles, ecmaVersion, hasErrors, log,
                  exitCode, probeIn, probeOut >>

CheckFile ==
  /\ pc = "check"
  /\ fileIdx < Len(filteredFiles)
  /\ LET file == filteredFiles[fileIdx + 1]
         o    == CheckFileOutcome(file)
     IN  /\ errArray' = errArray \o o.errs
         /\ runFailures' = runFailures + Len(o.errs)
         /\ runParsed' = TRUE
         /\ polyfillDetector' = (polyfillDetector \/ o.polyfill)
         /\ checked' = Append(checked, [file |-> file, parsed |-> o.parsed,
                                        detect |-> o.detect, polyfill |-> o.polyfill])
         /\ fileIdx' = fileIdx + 1
  /\ UNCHANGED << nConfigs, warnLevel, cur, pc, config, filteredFiles, ecmaVersion, hasErrors, log,
                  exitCode, probeIn, probeOut >>

\* the report with the test of the error list and the exit of line 457 given
ReportWith(failing, exits) ==
  /\ pc = "check"
  /\ fileIdx = Len(filteredFiles)
  /\ IF failing
       THEN log' = log \o << Entry("error", ERRORS_MSG, Len(errArray), "") >>
                      \o [i \in DOMAIN errArray |-> Entry("info", FILE_ERROR_MSG, 0, errArray[i].file)]
       ELSE log' = Append(log, Entry("info", SUCCESS_MSG, 0, ""))
  /\ hasErrors' = (hasErrors \/ failing)
  /\ IF failing /\ exits
       THEN /\ exitCode' = 1
            /\ pc' = "done"
            /\ UNCHANGED << config, filteredFiles, fileIdx, ecmaVersion, errArray, checked >>
       ELSE /\ UNCHANGED exitCode
            /\ IF cur < nConfigs
                 THEN /\ pc' = "setup"
                      /\ config' = NoConfig
                      /\ filteredFiles' = <<>>
                      /\ fileIdx' = 0
                      /\ ecmaVersion' = <<>>
                      /\ errArray' = <<>>
                      /\ checked' = <<>>
                 ELSE /\ pc' = "end"
                      /\ UNCHANGED << config, filteredFiles, fileIdx, ecmaVersion, errArray, checked >>
  /\ UNCHANGED << nConfigs, warnLevel, cur, polyfillDetector, runParsed, runFailures, probeIn, probeOut >>

\* the report that tests errArray.length > 1
Report_threshold == ReportWith(Len(errArray) > 1, TRUE)

\* the report without the exit of line 457: the loop goes on after the errors are logged
Report_continue == ReportWith(Len(errArray) > 0, FALSE)

\* lines 445-463, once the forEach has visited every file; the locals of the loop
\* body end with the iteration
Report ==
  /\ pc = "check"
  /\ fileIdx = Len(filteredFiles)
  /\ IF Len(errArray) > 0
       THEN /\ log' = log \o << Entry("error", ERRORS_MSG, Len(errArray), "") >>
                          \o [i \in DOMAIN errArray |-> Entry("info", FILE_ERROR_MSG, 0, errArray[i].file)]
            /\ hasErrors' = TRUE
            /\ exitCode' = 1
            /\ pc' = "done"
            /\ UNCHANGED << config, filteredFiles, fileIdx, ecmaVersion, errArray, checked >>
       ELSE /\ log' = Append(log, Entry("info", SUCCESS_MSG, 0, ""))
            /\ UNCHANGED << hasErrors, exitCode >>
            /\ IF cur < nConfigs
                 THEN /\ pc' = "setup"
                      /\ config' = NoConfig
                      /\ filteredFiles' = <<>>
                      /\ fileIdx' = 0
                      /\ ecmaVersion' = <<>>
                      /\ errArray' = <<>>
                      /\ checked' = <<>>
                 ELSE /\ pc' = "end"
                      /\ UNCHANGED << config, filteredFiles, fileIdx, ecmaVersion, errArray, checked >>
  /\ UNCHANGED << nConfigs, warnLevel, cur, polyfillDetector, runParsed, runFailures, probeIn, probeOut >>

\* lines 465-467: after the loop
Finish ==
  /\ pc = "end"
  /\ pc' = "done"
  /\ exitCode' = IF hasErrors THEN 1 ELSE 0
  /\ UNCHANGED << nConfigs, warnLevel, cur, config, filteredFiles, fileIdx, ecmaVersion, errArray,
                  hasErrors, polyfillDetector, log, checked, runParsed, runFailures,
                  probeIn, probeOut >>

(***************************************************************************)
(* Direct calls: detectFeatures on a tree, and the version switch followed *)
(* by parseInt on a token.                                                 *)
(***************************************************************************)
Editions == 3..14

\* the node the catalog's example of feature f parses to
MinimalNode(f) ==
  LET a == ES_FEATURES[f].astInfo
  IN  CASE a.nodeType = "VariableDeclaration" -> [type |-> a.nodeType, kind |-> a.kind]
        [] a.nodeType \in {"LogicalExpression", "BinaryExpression"} ->
             [type |-> a.nodeType, operator |-> a.operator]
        [] a.nodeType = "NewExpression" -> [type |-> a.nodeType, callee |-> Ident(a.callee)]
        [] a.nodeType = "CallExpression" ->
             IF "callee" \in DOMAIN a
             THEN [type |-> a.nodeType, callee |-> Ident(a.callee)]
             ELSE [type |-> a.nodeType,
                   callee |-> Member(IF "object" \in DOMAIN a THEN a.object ELSE "x", a.property)]
        [] a.nodeType = "ObjectExpression" ->
             [type |-> a.nodeType, properties |-> << [type |-> "SpreadElement"] >>]
        [] a.nodeType = "ClassDeclaration" ->
             IF "property" \in DOMAIN a
             THEN [type |-> a.nodeType, superClass |-> Ident("OtherClass")]
             ELSE [type |-> a.nodeType]
        [] a.nodeType = "BigIntLiteral" -> [type |-> "Literal", valueType |-> "bigint"]
        [] OTHER -> [type |-> a.nodeType]

AllTokens ==
  { "es3", "es4", "es5", "es6", "es7", "es8", "es9", "es10", "es11", "es12", "es13", "es14",
    "es2015", "es2016", "es2017", "es2018", "es2019", "es2020", "es2021", "es2022", "es2023",
    "es1", "es15", "es2014", "es2024", "ES6", "6", "esnext", "checkBrowser" }

\* names used by the call nodes and call signatures given to the matchers
CallNames == { "Object", "fromEntries", "Symbol" }

\* a member access whose receiver or property is of a given shape
Access(object, property) == [type |-> "MemberExpression", object |-> object, property |-> property]

\* call nodes: bare calls, member calls with an identifier, this or a literal as receiver
\* or property, and calls whose callee, receiver or property is absent
CallNodes ==
  { [type |-> "CallExpression", callee |-> Ident(n)] : n \in CallNames }
  \cup { [type |-> "CallExpression", callee |-> Member(o, q)] : o \in CallNames, q \in CallNames }
  \cup { [type |-> "CallExpression", callee |-> Access([type |-> "ThisExpression"], Ident(q))] :
           q \in CallNames }
  \cup { [type |-> "CallExpression", callee |-> Access(Ident(o), [type |-> "Literal"])] :
           o \in CallNames }
  \cup { [type |-> "CallExpression"],
         [type |-> "CallExpression", callee |-> [type |-> "MemberExpression"]],
         [type |-> "CallExpression",
          callee |-> [type |-> "MemberExpression", object |-> Ident("Object")]],
         [type |-> "CallExpression",
          callee |-> [type |-> "MemberExpression", property |-> Ident("fromEntries")]] }

\* nodes of the other types of checkMap, with and without their optional fields, and a
\* node of every other type the catalog declares
OtherNodes ==
  { [type |-> "VariableDeclaration", kind |-> "const"], [type |-> "VariableDeclaration"],
    [type |-> "LogicalExpression", operator |-> "??"], [type |-> "LogicalExpression"],
    [type |-> "BinaryExpression", operator |-> "**"], [type |-> "BinaryExpression"],
    [type |-> "NewExpression", callee |-> Ident("Promise")], [type |-> "NewExpression"],
    [type |-> "NewExpression", callee |-> Member("Object", "Symbol")],
    [type |-> "ObjectExpression", properties |-> << [type |-> "SpreadElement"] >>],
    [type |-> "ObjectExpression", properties |-> << [type |-> "Property"] >>],
    [type |-> "ObjectExpression", properties |-> << >>],
    [type |-> "ObjectExpression"],
    [type |-> "ClassDeclaration", superClass |-> Ident("D")], [type |-> "ClassDeclaration"],
    [type |-> "CatchClause", param |-> Ident("e")], [type |-> "CatchClause"],
    [type |-> "Literal", valueType |-> "bigint"], [type |-> "Literal", valueType |-> "number"],
    [type |-> "Literal"],
    [type |-> "ArrowFunctionExpression"], [type |-> "ChainExpression"],
    [type |-> "ForAwaitStatement"] }
  \cup { [type |-> ES_FEATURES[f].astInfo.nodeType] :
           f \in { g \in FeatureNames : ES_FEATURES[g].astInfo.nodeType \notin CheckMapKeys } }

\* call signatures: every combination of callee, object and property
CallSignatures ==
  { [nodeType |-> "CallExpression"],
    [nodeType |-> "CallExpression", callee |-> "Symbol"],
    [nodeType |-> "CallExpression", object |-> "Object"],
    [nodeType |-> "CallExpression", property |-> "fromEntries"],
    [nodeType |-> "CallExpression", object |-> "Object", property |-> "fromEntries"],
    [nodeType |-> "CallExpression", callee |-> "Symbol", object |-> "Object"],
    [nodeType |-> "CallExpression", callee |-> "Symbol", property |-> "fromEntries"],
    [nodeType |-> "CallExpression", callee |-> "Symbol", object |-> "Object",
     property |-> "fromEntries"] }

\* a matcher is given a node and a signature of the node's type (checkMap.Literal is
\* written for signatures of type BigIntLiteral)
MatcherInputs ==
  { x \in [kind : {"matcher"}, node : CallNodes \cup OtherNodes,
           astInfo : CallSignatures \cup { ES_FEATURES[f].astInfo : f \in FeatureNames }] :
      \/ x.astInfo.nodeType = x.node.type
      \/ x.node.type = "Literal" /\ x.astInfo.nodeType = "BigIntLiteral" }

ProbeInputs ==
  { [kind |-> "detectFeatures", feature |-> f, tree |-> {MinimalNode(f)},
     ecmaVersion |-> v, ignoreList |-> ig] :
      f \in FeatureNames, v \in Editions, ig \in {{}} }
  \cup
  { [kind |-> "detectFeatures", feature |-> "", tree |-> t, ecmaVersion |-> v, ignoreList |-> ig] :
      t \in {NullishTree, SortedTree, ClassTree}, v \in Editions, ig \in ListedNames }
  \cup
  { [kind |-> "version", token |-> t] : t \in AllTokens }
  \cup
  UNION { { [kind |-> "polyfills", text |-> {table[i].pattern},
             unsupportedFeatures |-> FeatureOrder] : i \in DOMAIN table } :
          table \in {POLYFILL_PATTERNS, IMPORT_PATTERNS} }
  \cup MatcherInputs

InitProbe ==
  /\ pc = "probe"
  /\ nConfigs = 0
  /\ IdleRun
  /\ probeIn \in ProbeInputs
  /\ probeOut = NoProbe

ProbeDetect ==
  /\ pc = "probe"
  /\ probeIn.kind = "detectFeatures"
  /\ probeOut' = detectFeatures(probeIn.tree, probeIn.ecmaVersion, probeIn.ignoreList)
  /\ pc' = "probed"
  /\ UNCHANGED << nConfigs, warnLevel, cur, config, filteredFiles, fileIdx, ecmaVersion, errArray,
                  hasErrors, polyfillDetector, log, exitCode, checked, runParsed,
                  runFailures, probeIn >>

ProbeVersion ==
  /\ pc = "probe"
  /\ probeIn.kind = "version"
  /\ LET r == VersionSwitch(probeIn.token)
     IN  probeOut' = [ error |-> r.error, ecmaVersion |-> r.ecmaVersion,
                       edition |-> IF r.error = "" THEN parseInt(r.ecmaVersion) ELSE 0 ]
  /\ pc' = "probed"
  /\ UNCHANGED << nConfigs, warnLevel, cur, config, filteredFiles, fileIdx, ecmaVersion, errArray,
                  hasErrors, polyfillDetector, log, exitCode, checked, runParsed,
                  runFailures, probeIn >>

\* the dispatch on a node and a signature: the matcher of the node's type, or the
\* catch-all, returns a boolean or raises
ProbeMatcher ==
  /\ pc = "probe"
  /\ probeIn.kind = "matcher"
  /\ LET key   == IF probeIn.node.type \in CheckMapKeys THEN probeIn.node.type ELSE "default"
         threw == checkMapThrows(key, probeIn.node, probeIn.astInfo)
     IN  probeOut' = [ key     |-> key,
                       threw   |-> threw,
                       matched |-> IF threw THEN FALSE
                                   ELSE checkMap(key, probeIn.node, probeIn.astInfo) ]
  /\ pc' = "probed"
  /\ UNCHANGED << nConfigs, warnLevel, cur, config, filteredFiles, fileIdx, ecmaVersion, errArray,
                  hasErrors, polyfillDetector, log, exitCode, checked, runParsed,
                  runFailures, probeIn >>

\* the polyfill step on a text that holds one signature: the scan, then the filter
ProbePolyfills ==
  /\ pc = "probe"
  /\ probeIn.kind = "polyfills"
  /\ LET polyfills == detectPolyfills(probeIn.text)
     IN  probeOut' = [ polyfills |-> polyfills,
                       filtered  |-> filterPolyfilled(probeIn.unsupportedFeatures, polyfills) ]
  /\ pc' = "probed"
  /\ UNCHANGED << nConfigs, warnLevel, cur, config, filteredFiles, fileIdx, ecmaVersion, errArray,
                  hasErrors, polyfillDetector, log, exitCode, checked, runParsed,
                  runFailures, probeIn >>

Init == InitRun \/ InitProbe

Next ==
  \/ Discover \/ Resolve \/ CheckFile \/ Report \/ Finish
  \/ ProbeDetect \/ ProbeVersion \/ ProbePolyfills \/ ProbeMatcher

Spec == Init /\ [][Next]_vars

(***************************************************************************)
(* Properties.                                                             *)
(***************************************************************************)
Last(s) == s[Len(s)]

\* a direct call of detectFeatures has returned
Detected == pc = "probed" /\ probeIn.kind = "detectFeatures"

\* a direct call of the version switch has returned
Switched == pc = "probed" /\ probeIn.kind = "version"

\* the edition the files of the current configuration are checked against
Target == parseInt(ecmaVersion)

\* the entries of the error list that belong to a file
ErrorsOf(file) == { i \in DOMAIN errArray : errArray[i].file = file }

\* the run has ended with the given message as its last logger call
EndedWith(msgs) == pc = "done" /\ log /= <<>> /\ Last(log).msg \in msgs

InvalidVersionMsgs == { ES4_MSG, INVALID_MSG }

DiscoveryMsgs == { NO_VERSION_MSG, NO_PATTERNS_MSG, NO_FILES_FOR_PATTERN_MSG, NO_FILES_MSG }

\* the enumeration of explicit tokens: the token of an edition and its year-named synonym
EsToken ==
  ( 3 :> "es3" ) @@ ( 5 :> "es5" ) @@ ( 6 :> "es6" ) @@ ( 7 :> "es7" ) @@ ( 8 :> "es8" )
  @@ ( 9 :> "es9" ) @@ ( 10 :> "es10" ) @@ ( 11 :> "es11" ) @@ ( 12 :> "es12" )
  @@ ( 13 :> "es13" ) @@ ( 14 :> "es14" )

YearToken ==
  ( 6 :> "es2015" ) @@ ( 7 :> "es2016" ) @@ ( 8 :> "es2017" ) @@ ( 9 :> "es2018" )
  @@ ( 10 :> "es2019" ) @@ ( 11 :> "es2020" ) @@ ( 12 :> "es2021" ) @@ ( 13 :> "es2022" )
  @@ ( 14 :> "es2023" )

EnumeratedTokens == { EsToken[n] : n \in DOMAIN EsToken } \cup { YearToken[n] : n \in DOMAIN YearToken }

\* the configuration carries an explicit version token outside the enumeration
InvalidToken(cfg) ==
  /\ Truthy(cfg.ecmaVersion)
  /\ cfg.ecmaVersion /= "checkBrowser"
  /\ cfg.ecmaVersion \notin EnumeratedTokens

\* C1 (as the specification states it): for every entry of the catalog, detection on the
\* minimal tree of that feature, nothing ignored, does not report the feature at target =
\* minVersion and reports it at target = minVersion - 1
C1_BoundaryExactness ==
  (Detected /\ probeIn.feature /= "")
    => LET m == ES_FEATURES[probeIn.feature].minVersion
       IN  /\ probeIn.ecmaVersion = m =>
                probeIn.feature \notin SeqToSet(probeOut.unsupportedFeatures)
           /\ probeIn.ecmaVersion = m - 1 =>
                probeIn.feature \in SeqToSet(probeOut.unsupportedFeatures)

\* C2 (as the specification states it): in a run with feature checking, const x = a ?? b;
\* checked at edition 10 is a failing file whose report is the unsupported list
\* <<NullishCoalescing>>, and checked at edition 11 is not a failing file
C2_RunReportsNullish ==
  \A i \in DOMAIN checked :
    (checked[i].file = "nullish.js" /\ config.checkFeatures /\ parseIgnoreList(config) = {})
      => /\ Target = 10 => \E j \in ErrorsOf("nullish.js") :
                              errArray[j].features = << "NullishCoalescing" >>
         /\ Target = 11 => ErrorsOf("nullish.js") = {}

\* C2 (amended): detectFeatures on the tree of const x = a ?? b; gives exactly
\* <<NullishCoalescing>> as unsupported at target 10 and nothing at target 11; in a run
\* with feature checking the file fails at edition 10 with the parser's error, before
\* detection is reached, and does not fail at edition 11, where detection is reached
C2_NullishCoalescing ==
  /\ (Detected /\ probeIn.tree = NullishTree /\ probeIn.ignoreList = {})
       => /\ probeIn.ecmaVersion = 10 => probeOut.unsupportedFeatures = << "NullishCoalescing" >>
          /\ probeIn.ecmaVersion = 11 => probeOut.unsupportedFeatures = <<>>
  /\ \A i \in DOMAIN checked :
       (checked[i].file = "nullish.js" /\ config.checkFeatures /\ parseIgnoreList(config) = {})
         => /\ Target = 10 => /\ ~checked[i].parsed /\ ~checked[i].detect
                              /\ ErrorsOf("nullish.js") /= {}
                              /\ \A j \in ErrorsOf("nullish.js") : errArray[j].kind = "parse"
            /\ Target = 11 => /\ checked[i].parsed /\ checked[i].detect
                              /\ ErrorsOf("nullish.js") = {}

\* the file has been checked at edition 10 with feature checking and has failed to parse
C2_Witness ==
  /\ config.checkFeatures /\ parseIgnoreList(config) = {} /\ Target = 10
  /\ \E i \in DOMAIN checked : checked[i].file = "nullish.js" /\ ~checked[i].parsed

\* C3: the switch is an exact lookup: es3 gives 3, es5 gives 5, and for every N in 6..14
\* the token esN and the token es(2009+N) both give N, without an error
C3_ExactLookup ==
  Switched =>
    /\ \A n \in DOMAIN EsToken :
         probeIn.token = EsToken[n] => probeOut.error = "" /\ probeOut.edition = n
    /\ \A n \in DOMAIN YearToken :
         probeIn.token = YearToken[n] => probeOut.error = "" /\ probeOut.edition = n

\* the switch has been given es2021 and has answered 12
C3_Witness == Switched /\ probeIn.token = "es2021" /\ probeOut.edition = 12

\* the resolution of the current configuration's version has run: the configuration was
\* read, its files were discovered, and the run is past line 339 or has ended there
Resolved == cur >= 1 /\ pc \in {"check", "end", "done"} /\ ~EndedWith(DiscoveryMsgs)

\* the run has ended at the version switch: error logged, exit code 1, no version
InvalidVersionExit ==
  /\ pc = "done" /\ exitCode = 1 /\ ecmaVersion = <<>>
  /\ Last(log) = Entry("error", IF config.ecmaVersion = "es4" THEN ES4_MSG ELSE INVALID_MSG, 0, "")

C5_NoFileOfTheRun == EndedWith(InvalidVersionMsgs) => ~runParsed

\* C5 (amended): no file is ever checked under a configuration whose explicit token is
\* invalid (checkBrowser not set), and when the run fails on an invalid version token no
\* file of that configuration has been parsed or feature-checked
C5_NoFileOfTheConfiguration ==
  /\ (InvalidToken(config) /\ config.checkBrowser = Undefined)
       => pc \in {"resolve", "done"} /\ checked = <<>> /\ fileIdx = 0 /\ errArray = <<>>
  /\ EndedWith(InvalidVersionMsgs)
       => /\ InvalidToken(config) /\ config.checkBrowser = Undefined
          /\ checked = <<>> /\ fileIdx = 0 /\ errArray = <<>>

\* the second configuration has an invalid token and the run has failed on it after the
\* files of the first configuration were parsed
C5_Witness == EndedWith(InvalidVersionMsgs) /\ cur = 2 /\ runParsed /\ filteredFiles /= <<>>

\* the entries of the error list that record a parse error
ParseErrors == { j \in DOMAIN errArray : errArray[j].kind = "parse" }

\* the run has ended at the report of a configuration's failing files (lines 445-458)
EndedAtReport == pc = "done" /\ hasErrors

\* C6 (as the specification states it): when the run has ended after a parse error, every
\* configuration of the run, and so every file selected for the run, has been processed
C6_EveryFileOfTheRun == (EndedAtReport /\ ParseErrors /= {}) => cur = nConfigs

\* C6 (amended): a parse error is recorded for its file and the other files of the same
\* configuration are still visited in order, parsed, and feature-checked when enabled: the
\* report is reached only after the last of them; the run ends at that report
C6_OtherFilesOfTheConfiguration ==
  /\ Len(checked) = fileIdx /\ fileIdx <= Len(filteredFiles)
  /\ \A i \in DOMAIN checked :
       /\ checked[i].file = filteredFiles[i]
       /\ ~checked[i].parsed <=> \E j \in ErrorsOf(checked[i].file) : errArray[j].kind = "parse"
       /\ (checked[i].parsed /\ config.checkFeatures) => checked[i].detect
  /\ (EndedAtReport \/ pc = "end") => fileIdx = Len(filteredFiles)
  /\ EndedAtReport => exitCode = 1 /\ errArray /= <<>>

\* the first file failed to parse, the second was parsed and feature-checked, and the run
\* has ended at the report with a configuration left
C6_Witness ==
  /\ EndedAtReport /\ cur < nConfigs /\ Len(checked) = 2
  /\ ~checked[1].parsed /\ checked[2].parsed /\ checked[2].detect

FatalMsgs == DiscoveryMsgs \cup InvalidVersionMsgs \cup { BROWSERSLIST_MSG }

\* C7: the error list holds the per-file failures (one entry for each file that failed
\* to parse, the others non-empty unsupported lists of checked files), and a run that has
\* ended without a discovery or resolution error has exit code 1 if and only if the list
\* is non-empty, and otherwise exit code 0 with the success message logged last
C7_Outcome ==
  /\ Cardinality(ParseErrors) = Cardinality({ i \in DOMAIN checked : ~checked[i].parsed })
  /\ \A j \in DOMAIN errArray :
       /\ \E i \in DOMAIN checked : checked[i].file = errArray[j].file
       /\ errArray[j].kind = "features" => errArray[j].features /= <<>>
  /\ (pc = "done" /\ ~EndedWith(FatalMsgs))
       => /\ exitCode = 1 <=> errArray /= <<>>
          /\ exitCode /= 1 => exitCode = 0 /\ Last(log) = Entry("info", SUCCESS_MSG, 0, "")

\* a run has ended failing with a parse error and an unsupported-feature report in its list
C7_Witness ==
  /\ pc = "done" /\ exitCode = 1 /\ ParseErrors /= {}
  /\ \E j \in DOMAIN errArray : errArray[j].kind = "features"

\* the logger calls that report the aggregate count
Reports == { i \in DOMAIN log : log[i].msg = ERRORS_MSG }

\* C8: the aggregate count is logged at most once in a run, only when a file has failed,
\* with the number of per-file failures of the run, and a run that has ended with a
\* per-file failure has logged it
C8_ReportedOnce ==
  /\ Cardinality(Reports) <= 1
  /\ \A i \in Reports : runFailures > 0 /\ log[i].n = runFailures
  /\ (pc = "done" /\ runFailures > 0) => Reports /= {}

\* the second configuration of a run had two failing files and the count 2 was logged
C8_Witness == pc = "done" /\ cur = 2 /\ runFailures = 2 /\ \E i \in Reports : log[i].n = 2

\* C9: with checkFeatures false neither detection nor the polyfill scan runs for any
\* file, and a file has an entry in the error list if and only if it failed to parse
C9_ParseOnly ==
  (cur >= 1 /\ ~config.checkFeatures) =>
    \A i \in DOMAIN checked :
      /\ ~checked[i].detect /\ ~checked[i].polyfill
      /\ ErrorsOf(checked[i].file) /= {} <=> ~checked[i].parsed

\* with checkFeatures false and checkForPolyfills true, a file that fails to parse and a
\* file that uses a feature above the target have been checked: only the first failed
C9_Witness ==
  /\ ~config.checkFeatures /\ config.checkForPolyfills /\ parseIgnoreList(config) = {}
  /\ Target = 10
  /\ \E i, k \in DOMAIN checked :
       /\ checked[i].file = "nullish.js" /\ ~checked[i].parsed
       /\ checked[k].file = "sorted.js" /\ checked[k].parsed
  /\ ErrorsOf("sorted.js") = {} /\ ErrorsOf("nullish.js") /= {}

\* C10: no allow-listed name is in the unsupported list reported for any file
C10_AllowList ==
  \A j \in DOMAIN errArray :
    \A f \in config.allowList : f \notin SeqToSet(errArray[j].features)

\* sorted.js uses ArrayToSorted, above the target; the name is allow-listed and not
\* ignored, polyfill checking is off, and the file was feature-checked without failing
C10_Witness ==
  /\ config.checkFeatures /\ ~config.checkForPolyfills
  /\ config.allowList = {"ArrayToSorted"} /\ config.ignore = {}
  /\ Target < ES_FEATURES["ArrayToSorted"].minVersion
  /\ \E i \in DOMAIN checked : checked[i].file = "sorted.js" /\ checked[i].detect
  /\ "ArrayToSorted" \in FoundFeatures(Files["sorted.js"].tree)
  /\ ErrorsOf("sorted.js") = {}

\* the signatures of both tables
Signatures == SeqToSet(POLYFILL_PATTERNS) \cup SeqToSet(IMPORT_PATTERNS)

\* the unsupported list detection gives for a file of the current configuration
Incoming(file) ==
  detectFeatures(Files[file].tree, Target, parseIgnoreList(config)).unsupportedFeatures

\* the names reported as unsupported for a file
Reported(file) ==
  UNION { SeqToSet(errArray[j].features) : j \in ErrorsOf(file) }

\* C11: for a feature-checked file and a feature detection gives as unsupported whose
\* signature occurs in the text of the file, the feature is not reported when
\* checkForPolyfills is set and is reported when it is not
C11_PolyfillSuppression ==
  \A i \in DOMAIN checked :
    checked[i].detect =>
      \A s \in Signatures :
        (s.pattern \in Files[checked[i].file].text
           /\ s.feature \in SeqToSet(Incoming(checked[i].file)))
          => IF config.checkForPolyfills
               THEN checked[i].polyfill /\ s.feature \notin Reported(checked[i].file)
               ELSE ~checked[i].polyfill /\ s.feature \in Reported(checked[i].file)

\* polyfilled.js, which uses toSorted above the target and defines
\* Array.prototype.toSorted, was checked with checkForPolyfills set and did not fail
C11_Witness ==
  /\ config.checkFeatures /\ config.checkForPolyfills
  /\ \E i \in DOMAIN checked : checked[i].file = "polyfilled.js" /\ checked[i].polyfill
  /\ "ArrayToSorted" \in SeqToSet(Incoming("polyfilled.js"))
  /\ ErrorsOf("polyfilled.js") = {}

\* the polyfill step has been applied to a text with one signature
Scanned == pc = "probed" /\ probeIn.kind = "polyfills"

\* C12 (as the specification states it): the feature a signature stands for is the name
\* of a catalog entry, so that the scan of a text holding the signature removes a catalog
\* feature from the list of all catalog names
C12_SignatureNames ==
  Scanned => /\ probeOut.polyfills \subseteq FeatureNames
             /\ probeOut.filtered /= probeIn.unsupportedFeatures

\* C13: a file is scanned for polyfills only when checkForPolyfills is set and detection
\* gave a non-empty unsupported list for it; the detector is loaded only by such a scan
\* (while the first configuration is checked, only if one of its files was scanned);
\* for a feature-checked file that is not scanned the reported list is the list detection
\* gave (no entry in the error list when that list is empty)
C13_ShortCircuit ==
  /\ \A i \in DOMAIN checked :
       /\ checked[i].polyfill =>
            /\ config.checkForPolyfills /\ checked[i].detect
            /\ Incoming(checked[i].file) /= <<>>
            /\ polyfillDetector
       /\ (checked[i].detect /\ ~checked[i].polyfill) =>
            LET incoming == Incoming(checked[i].file)
            IN  /\ \A j \in ErrorsOf(checked[i].file) : errArray[j].features = incoming
                /\ ErrorsOf(checked[i].file) = {} <=> incoming = <<>>
  /\ (polyfillDetector /\ cur = 1 /\ pc /= "setup") =>
       \E i \in DOMAIN checked : checked[i].polyfill
  /\ polyfillDetector => runParsed

\* with checkForPolyfills set, a file without unsupported features was feature-checked:
\* it was not scanned and the detector is not loaded
C13_Witness ==
  /\ config.checkFeatures /\ config.checkForPolyfills /\ ~polyfillDetector
  /\ \E i \in DOMAIN checked :
       /\ checked[i].file = "nullish.js" /\ checked[i].detect /\ ~checked[i].polyfill
       /\ Incoming("nullish.js") = <<>>

\* a matcher has been applied to a node and a signature
Matched == pc = "probed" /\ probeIn.kind = "matcher"

\* the shapes of a call node: f(...) and o.q(...)
IsBareCall(node) == GetNode(node, "callee").type = "Identifier"

IsMemberCall(node) == GetNode(node, "callee").type = "MemberExpression"

\* C14: a signature with object and property matches a call exactly when it is a member
\* call whose receiver is the identifier object and whose property is the identifier
\* property; a signature with a callee and neither object nor property matches exactly
\* the bare calls of that name; a bare call matches no signature that has an object or a
\* property, and a member call matches no signature that has neither
C14_CallShapes ==
  (Matched /\ probeIn.node.type = "CallExpression" /\ ~probeOut.threw) =>
    LET node == probeIn.node
        a    == probeIn.astInfo
        hasObject   == "object" \in DOMAIN a
        hasProperty == "property" \in DOMAIN a
        hasCallee   == "callee" \in DOMAIN a
    IN  /\ (hasObject /\ hasProperty) =>
             (probeOut.matched <=> node.callee = Member(a.object, a.property))
        /\ (hasCallee /\ ~hasObject /\ ~hasProperty) =>
             (probeOut.matched <=> node.callee = Ident(a.callee))
        /\ (probeOut.matched /\ IsBareCall(node)) => hasCallee /\ ~hasObject /\ ~hasProperty
        /\ (probeOut.matched /\ IsMemberCall(node)) => hasObject \/ hasProperty
        /\ probeOut.matched => IsBareCall(node) \/ IsMemberCall(node)

\* Object.fromEntries(...) has matched the signature with object and property
C14_Witness ==
  /\ Matched /\ probeOut.matched
  /\ probeIn.node = [type |-> "CallExpression", callee |-> Member("Object", "fromEntries")]
  /\ probeIn.astInfo = ES_FEATURES["ObjectFromEntries"].astInfo

\* C15 (as the specification states it): no matcher raises, whichever optional field
\* of the node (callee, callee.object, callee.property, properties, param, superClass,
\* operator, kind, value) is absent
C15_NoThrow == Matched => ~probeOut.threw

\* the node types the catalog declares
CatalogNodeTypes == { ES_FEATURES[f].astInfo.nodeType : f \in FeatureNames }

\* C16 (as the specification states it): a node of a type the catalog declares is given
\* to the matcher of that type, and the catch-all returns false without raising
C16_OneMatcherPerType ==
  Matched =>
    /\ probeIn.node.type \in CatalogNodeTypes => probeOut.key = probeIn.node.type
    /\ probeOut.key = "default" => ~probeOut.matched /\ ~probeOut.threw

\* C17: on a ClassDeclaration node the signature of class always matches and the
\* signature of extends matches exactly when the node has a superclass; detection on the
\* tree of class C extends D {} finds both and gives no unsupported feature at edition 6
\* (and both at edition 5)
C17_ClassDeclaration ==
  /\ (Matched /\ probeIn.node.type = "ClassDeclaration") =>
       /\ ~probeOut.threw
       /\ probeIn.astInfo = ES_FEATURES["class"].astInfo => probeOut.matched
       /\ probeIn.astInfo = ES_FEATURES["extends"].astInfo =>
            (probeOut.matched <=> "superClass" \in DOMAIN probeIn.node)
  /\ (Detected /\ probeIn.tree = ClassTree /\ probeIn.ignoreList = {}) =>
       /\ probeOut.foundFeatures = {"class", "extends"}
       /\ probeIn.ecmaVersion = 6 => probeOut.unsupportedFeatures = <<>>
       /\ probeIn.ecmaVersion = 5 => probeOut.unsupportedFeatures = << "class", "extends" >>

\* detection on class C extends D {} at edition 6 has found extends and reports nothing
C17_Witness ==
  /\ Detected /\ probeIn.tree = ClassTree /\ probeIn.ignoreList = {}
  /\ probeIn.ecmaVersion = 6
  /\ "extends" \in probeOut.foundFeatures /\ probeOut.unsupportedFeatures = <<>>

\* the current configuration names an ignore file that does not exist
MissingIgnoreFile == Truthy(config.ignoreFile) /\ ~existsSync(config.ignoreFile)

\* the names the configuration lists inline
InlineList == config.ignore \cup config.allowList

\* the logger was given the warning about the ignore file of the current configuration
IgnoreFileWarned ==
  \E i \in DOMAIN log :
    log[i].level = "warn" /\ log[i].msg = IGNORE_FILE_MSG /\ log[i].file = config.ignoreFile

\* C18: with an ignore file that does not exist, the warning is given exactly when the
\* warn level is enabled, a failing end of the run has another reason (a discovery error
\* or a failing file), every selected file is checked, and the names reported for a
\* feature-checked file are those detection gives with the inline list
C18_MissingIgnoreFile ==
  MissingIgnoreFile =>
    /\ warnLevel \in WarnLevels
    /\ IgnoreFileWarned = (warnLevel = "enabled")
    /\ (pc = "done" /\ exitCode = 1) => (EndedWith(DiscoveryMsgs) \/ errArray /= <<>>)
    /\ (pc \in {"end", "done"} /\ ~EndedWith(DiscoveryMsgs)) =>
         /\ Len(checked) = Len(filteredFiles)
         /\ \A i \in DOMAIN checked : checked[i].file = filteredFiles[i]
    /\ \A i \in DOMAIN checked :
         /\ (checked[i].parsed /\ config.checkFeatures) => checked[i].detect
         /\ (checked[i].detect /\ ~checked[i].polyfill) =>
              Reported(checked[i].file) =
                SeqToSet(detectFeatures(Files[checked[i].file].tree, Target,
                                        InlineList).unsupportedFeatures)

\* a run whose ignore file does not exist gave the warning, checked sorted.js for
\* features with toSorted ignored inline, and ended without failure
C18_Witness ==
  /\ MissingIgnoreFile /\ IgnoreFileWarned
  /\ pc = "done" /\ exitCode = 0
  /\ config.checkFeatures /\ config.ignore = {"ArrayToSorted"}
  /\ \E i \in DOMAIN checked : checked[i].file = "sorted.js" /\ checked[i].detect


\* the answers of the browser resolver that name at least one browser
ResolvableTargets == BrowserTargets \ { {} }

\* C19: the browserslist error is the last logger call of a run that has ended with exit
\* code 1 in the browser path, without a version and without a file of the configuration
\* parsed; and a configuration of the browser path whose files are checked has the version
\* the resolver gave for a non-empty browser set
C19_QueryFailure ==
  /\ \A i \in DOMAIN log :
       log[i].msg = BROWSERSLIST_MSG =>
         /\ i = Len(log) /\ log[i].level = "error"
         /\ pc = "done" /\ exitCode = 1
         /\ isBrowserslistCheck(config)
         /\ ecmaVersion = <<>>
         /\ checked = <<>> /\ fileIdx = 0 /\ errArray = <<>>
  /\ (Resolved /\ isBrowserslistCheck(config) /\ ~EndedWith({BROWSERSLIST_MSG})) =>
       \E browsers \in ResolvableTargets : ecmaVersion = toString(SetMax(browsers))

\* with checkBrowser set and files selected, the resolver failed: the run has ended with
\* the error, after the files of an earlier configuration were parsed
C19_Witness ==
  /\ EndedWith({BROWSERSLIST_MSG}) /\ exitCode = 1
  /\ config.checkBrowser = "true" /\ filteredFiles /= <<>>
  /\ cur = 2 /\ runParsed


\* the checkBrowser option of the configuration is false or absent
BrowserCheckOff(cfg) == cfg.checkBrowser \in { Undefined, "false" }

\* C20 (as the specification states it): a configuration whose checkBrowser option is
\* false or absent and whose token is of the enumeration is resolved by the lookup of its
\* token: the run does not end with the error of the browser path, and the version is the
\* one the switch gives for the token
C20_TokenLookupUnlessEnabled ==
  (Resolved /\ BrowserCheckOff(config) /\ config.ecmaVersion \in EnumeratedTokens) =>
    /\ ~EndedWith({BROWSERSLIST_MSG})
    /\ ecmaVersion = VersionSwitch(config.ecmaVersion).ecmaVersion

=============================================================================
